---------------------------- MODULE Spec2Model ----------------------------
(***************************************************************************)
(* A model of pixelate.py: the palette loader, the image pixelator, the    *)
(* frame-rate prober and the video pixelator.                              *)
(*                                                                         *)
(* Three specifications share the variables below:                         *)
(*   SpecPalette  one call of load_palette_from_file                        *)
(*   SpecImage    one call of pixelate_image                                *)
(*   SpecVideo    one call of pixelate_video                                *)
(* The variables of the operations a specification does not run stay at    *)
(* their idle values.  Text is modelled as sequences of one-character      *)
(* strings, Python floats as 53-bit binary significands with an exponent.  *)
(***************************************************************************)
EXTENDS Integers, Sequences, FiniteSets, TLC

VARIABLES
    \* load_palette_from_file
    lp_pc,          \* "idle", "call", "reading", "returned", "raised"
    fileExists,     \* whether palette_file_path names an existing file
    fileLines,      \* the lines of the file, each with its line terminator
    lineIdx,        \* the line the for loop reads next (1-based)
    palette,        \* the local list palette
    lp_ret,         \* what the call returned
    \* pixelate_image
    pi_pc,          \* "idle", "call", "resized", "quantized", "enlarged", "saved", "raised"
    imageSize,      \* <<width, height>> of the opened image
    params,         \* target_width, palette_size, pixel_scale, palette_file
    targetSize,     \* <<target_width, target_height>> or <<>>
    quantLog,       \* the quantize calls made so far
    enlargedSize,   \* <<enlarged_width, enlarged_height>> or <<>>
    savedSize,      \* the size of the image written to output_path, or <<>>
    \* pixelate_video
    pv_pc,          \* "idle", "call", "probed", "loop", "encoding", "done", "raised"
    video,          \* the input video: native fps, frame size, frames
    fps,            \* the local fps (the argument, then the capped value)
    readPos,        \* number of frames video.read() has returned
    frame_count,    \* the local frame_count
    tempDir,        \* "none", "present", "removed"
    tempFiles,      \* set of files in the temporary directory
    handles,        \* the decoder handles: probe and reader
    encoder         \* the encoder invocation, or the idle record

vars == << lp_pc, fileExists, fileLines, lineIdx, palette, lp_ret,
           pi_pc, imageSize, params, targetSize, quantLog, enlargedSize, savedSize,
           pv_pc, video, fps, readPos, frame_count, tempDir, tempFiles, handles,
           encoder >>

paletteVars == << lp_pc, fileExists, fileLines, lineIdx, palette, lp_ret >>

imageVars == << pi_pc, imageSize, params, targetSize, quantLog, enlargedSize, savedSize >>

videoVars == << pv_pc, video, fps, readPos, frame_count, tempDir, tempFiles, handles,
                encoder >>

---------------------------------------------------------------------------
(* Bounds of the model *)

MaxLines == 2

MaxDim == 15

MaxScale == 2

MaxFrames == 2

MaxFps == 3

---------------------------------------------------------------------------
(* Text: characters, str.strip, str.lstrip, slices, int(s, 16) *)

HexLower == << "0", "1", "2", "3", "4", "5", "6", "7", "8", "9",
               "a", "b", "c", "d", "e", "f" >>

HexUpper == << "0", "1", "2", "3", "4", "5", "6", "7", "8", "9",
               "A", "B", "C", "D", "E", "F" >>

IsHexDigit(c) == \E i \in 1..16 : HexLower[i] = c \/ HexUpper[i] = c

HexDigitVal(c) == (CHOOSE i \in 1..16 : HexLower[i] = c \/ HexUpper[i] = c) - 1

IsSpace(c) == c \in { " ", "\t", "\n", "\r" }

RECURSIVE LStripSpace(_)
LStripSpace(s) ==
    IF s # << >> /\ IsSpace(Head(s)) THEN LStripSpace(Tail(s)) ELSE s

RECURSIVE RStripSpace(_)
RStripSpace(s) ==
    IF s # << >> /\ IsSpace(s[Len(s)])
    THEN RStripSpace(SubSeq(s, 1, Len(s) - 1))
    ELSE s

\* str.strip()
Strip(s) == RStripSpace(LStripSpace(s))

\* str.lstrip('#'): every leading '#' goes
RECURSIVE LStripHash(_)
LStripHash(s) ==
    IF s # << >> /\ Head(s) = "#" THEN LStripHash(Tail(s)) ELSE s

\* the slice s[i:i+2], i counted from 0; a slice past the end is shorter or empty
Slice2(s, i) ==
    SubSeq(s, i + 1, IF i + 2 <= Len(s) THEN i + 2 ELSE Len(s))

RECURSIVE HexValue(_)
HexValue(s) ==
    IF s = << >> THEN 0
    ELSE 16 * HexValue(SubSeq(s, 1, Len(s) - 1)) + HexDigitVal(s[Len(s)])

AllHex(s) == \A i \in 1..Len(s) : IsHexDigit(s[i])

\* int(s, 16) for a string of at most two characters: surrounding whitespace
\* is ignored, one sign is accepted, at least one hex digit is required
PyInt16(s) ==
    LET t == Strip(s) IN
    IF t = << >> THEN [ok |-> FALSE, val |-> 0]
    ELSE IF Head(t) \in { "+", "-" }
         THEN IF Tail(t) # << >> /\ AllHex(Tail(t))
              THEN [ok |-> TRUE,
                    val |-> IF Head(t) = "-" THEN 0 - HexValue(Tail(t))
                                             ELSE HexValue(Tail(t))]
              ELSE [ok |-> FALSE, val |-> 0]
         ELSE IF AllHex(t) THEN [ok |-> TRUE, val |-> HexValue(t)]
                           ELSE [ok |-> FALSE, val |-> 0]

---------------------------------------------------------------------------
(* load_palette_from_file *)

\* the offsets of the three channel slices, with a shifted variant
ChannelOffsetsShifted == << 0, 2, 3 >>

ChannelOffsets == << 0, 2, 4 >>

\* the body of the for loop: the color of one line, or the ValueError of int()
ParseLine(rawLine) ==
    LET stripped == Strip(rawLine)
        line == IF stripped # << >> /\ Head(stripped) = "#"
                THEN LStripHash(stripped) ELSE stripped
        ch == [k \in 1..3 |-> PyInt16(Slice2(line, ChannelOffsets[k]))]
    IN  IF \A k \in 1..3 : ch[k].ok
        THEN [ok |-> TRUE, rgb |-> << ch[1].val, ch[2].val, ch[3].val >>]
        ELSE [ok |-> FALSE, rgb |-> << >>]

RetNone == [kind |-> "None", colors |-> << >>]

RetList(colors) == [kind |-> "list", colors |-> colors]

RetRaised == [kind |-> "ValueError", colors |-> << >>]

RetPending == [kind |-> "pending", colors |-> << >>]

\* the whole call, as pixelate_image uses it
RECURSIVE ParseLines(_, _)
ParseLines(lines, acc) ==
    IF lines = << >> THEN RetList(acc)
    ELSE LET p == ParseLine(Head(lines)) IN
         IF p.ok THEN ParseLines(Tail(lines), Append(acc, p.rgb))
                 ELSE RetRaised

load_palette_from_file(file) ==
    IF ~file.exists THEN RetNone ELSE ParseLines(file.lines, << >>)

\* --- the inputs: palette files ---

LineBases ==
    { << "F", "F", "0", "0", "8", "0", "a", "b" >>,
      << "0", "9", "c", "D", "e", "1" >>,
      << "1", "2", "g", "4", "5", "6" >>,
      << "+", "1", "-", "2", " ", "3" >> }

LineBodies == UNION { { SubSeq(b, 1, k) : k \in 0..Len(b) } : b \in LineBases }

SampleLines ==
    { h \o body \o << "\n" >> : h \in { << >>, << "#" >> }, body \in LineBodies }

SampleFiles == UNION { [1..n -> SampleLines] : n \in 0..MaxLines }

---------------------------------------------------------------------------
(* Python float arithmetic: IEEE 754 binary64, round to nearest, ties to even. *)
(* A positive float is [m, e]: m is the significand, Precision bits with the   *)
(* most significant first and m[1] = 1; its value is the sum of                *)
(* m[i] * 2^(e - i + 1).                                                        *)

Precision == 53

\* the arithmetic below works on this many binary digits at a time, so that
\* every intermediate value stays below 2^31
LimbBits == 13

\* the c low binary digits of n, most significant first
LowBits(n, c) == [i \in 1..c |-> (n \div (2 ^ (c - i))) % 2]

\* the binary digits of a natural number below 2^30, most significant first
NatBits(n) ==
    LowBits(n, CHOOSE len \in 0..30 :
                   n < 2 ^ len /\ (len = 0 \/ 2 ^ (len - 1) <= n))

RECURSIVE BitsToNat(_)
BitsToNat(b) ==
    IF b = << >> THEN 0
    ELSE IF Len(b) = 1 THEN b[1]
    ELSE LET half == Len(b) \div 2
         IN  BitsToNat(SubSeq(b, 1, half)) * (2 ^ (Len(b) - half))
               + BitsToNat(SubSeq(b, half + 1, Len(b)))

Zeros(n) == [i \in 1..n |-> 0]

\* the next k binary digits of r / w (0 <= r < w), and the remainder left;
\* long division, LimbBits digits at a time
RECURSIVE FracBits(_, _, _)
FracBits(r, w, k) ==
    IF k <= 0 THEN [bits |-> << >>, rem |-> r]
    ELSE LET c == IF k < LimbBits THEN k ELSE LimbBits
             n == r * (2 ^ c)
             rest == FracBits(n % w, w, k - c)
         IN  [bits |-> LowBits(n \div w, c) \o rest.bits, rem |-> rest.rem]

\* r / w < 1 scaled up until its first binary digit is 1: z zero digits skipped
RECURSIVE SkipZeros(_, _, _)
SkipZeros(r, w, z) ==
    IF 2 * r >= w THEN [r |-> r, z |-> z] ELSE SkipZeros(2 * r, w, z + 1)

\* a bit string plus one: the last 0 becomes 1 and the 1s after it become 0
IncBits(b) ==
    LET zeroAt == { i \in 1..Len(b) : b[i] = 0 } IN
    IF zeroAt = {} THEN [bits |-> Zeros(Len(b)), carry |-> 1]
    ELSE LET p == CHOOSE i \in zeroAt : \A j \in zeroAt : j <= i
         IN  [bits |-> [i \in 1..Len(b) |->
                           IF i < p THEN b[i] ELSE IF i = p THEN 1 ELSE 0],
              carry |-> 0]

\* the exact value bits (first bit 1, of weight 2^e), with sticky saying that
\* more nonzero digits follow, rounded to Precision bits
RoundNearestEven(bits, sticky, e) ==
    IF Len(bits) <= Precision
    THEN [m |-> bits \o Zeros(Precision - Len(bits)), e |-> e]
    ELSE LET m == SubSeq(bits, 1, Precision)
             guard == bits[Precision + 1]
             rest == sticky \/ \E i \in (Precision + 2)..Len(bits) : bits[i] = 1
             up == guard = 1 /\ (rest \/ m[Precision] = 1)
             inc == IncBits(m)
         IN  IF ~up THEN [m |-> m, e |-> e]
             ELSE IF inc.carry = 1
                  THEN [m |-> << 1 >> \o Zeros(Precision - 1), e |-> e + 1]
                  ELSE [m |-> inc.bits, e |-> e]

\* h / w for integers h >= 1, w >= 1 (true division)
FloatDiv(h, w) ==
    LET ip == h \div w
        r0 == h % w
    IN  IF ip >= 1
        THEN LET ib == NatBits(ip)
                 fb == FracBits(r0, w, Precision + 1 - Len(ib))
             IN  RoundNearestEven(ib \o fb.bits, fb.rem # 0, Len(ib) - 1)
        ELSE LET sk == SkipZeros(r0, w, 0)
                 fb == FracBits(sk.r, w, Precision + 1)
             IN  RoundNearestEven(fb.bits, fb.rem # 0, 0 - (sk.z + 1))

\* m * k + c for a bit string m: the low Len(m) bits of the result and the
\* carry out of them; schoolbook multiplication, LimbBits digits at a time
RECURSIVE MulBits(_, _, _)
MulBits(m, k, c) ==
    IF m = << >> THEN [bits |-> << >>, carry |-> c]
    ELSE LET n == IF Len(m) < LimbBits THEN Len(m) ELSE LimbBits
             limb == BitsToNat(SubSeq(m, Len(m) - n + 1, Len(m)))
             t == limb * k + c
             rest == MulBits(SubSeq(m, 1, Len(m) - n), k, t \div (2 ^ n))
         IN  [bits |-> rest.bits \o LowBits(t % (2 ^ n), n), carry |-> rest.carry]

\* k * f for an integer k >= 1 (k converts to a float exactly)
FloatMulInt(k, f) ==
    LET p == MulBits(f.m, k, 0)
        prod == NatBits(p.carry) \o p.bits
    IN  RoundNearestEven(prod, FALSE, f.e + (Len(prod) - Precision))

\* int(f): truncation toward zero, f positive and below 2^Precision
FloatTrunc(f) ==
    IF f.e < 0 THEN 0 ELSE BitsToNat(SubSeq(f.m, 1, f.e + 1))

---------------------------------------------------------------------------
(* pixelate_image *)

\* target_height = int(target_width * (original_height / original_width))
TargetHeight(original_width, original_height, target_width) ==
    FloatTrunc(FloatMulInt(target_width, FloatDiv(original_height, original_width)))

\* Image.resize raises ValueError unless both sides of the new size are positive
ResizeAccepts(size) == size[1] >= 1 /\ size[2] >= 1

\* "if palette:" with the None test a careless rewrite would use instead
PaletteIsNotNone(loaded) == loaded.kind = "list"

\* "if palette:": None and the empty list are both false
PaletteTruthy(loaded) == loaded.kind = "list" /\ loaded.colors # << >>

MedianCutCall(palette_size) ==
    [method |-> "MEDIANCUT", palette |-> << >>, colors |-> palette_size]

PaletteCall(colors) ==
    [method |-> "palette", palette |-> colors, colors |-> Len(colors)]

\* the quantization step: the quantize call made, or the error of the loader
QuantizeStep(p) ==
    IF p.palette_file.given
    THEN LET loaded == load_palette_from_file(p.palette_file) IN
         IF loaded.kind = "ValueError"
         THEN [raised |-> TRUE, call |-> MedianCutCall(0)]
         ELSE IF PaletteTruthy(loaded)
              THEN [raised |-> FALSE, call |-> PaletteCall(loaded.colors)]
              ELSE [raised |-> FALSE, call |-> MedianCutCall(p.palette_size)]
    ELSE [raised |-> FALSE, call |-> MedianCutCall(p.palette_size)]

\* enlarged_width, enlarged_height
EnlargedSize(target, pixel_scale) ==
    << target[1] * pixel_scale, target[2] * pixel_scale >>

\* Image.open(input_path).convert("RGB"): the (red, green, blue) of the file
PilReadRGB(file) == << file.rgb.r, file.rgb.g, file.rgb.b >>

PixelateRaised == [raised |-> TRUE, input |-> << >>, size |-> << >>,
                   quant |-> MedianCutCall(0)]

\* the whole call on an image file, as pixelate_video uses it: the image
\* saved at output_path, or the error raised
pixelate_image(file, p) ==
    LET target == << p.target_width,
                     TargetHeight(file.size[1], file.size[2], p.target_width) >>
        q == QuantizeStep(p)
        enlarged == EnlargedSize(target, p.pixel_scale)
    IN  IF ~ResizeAccepts(target) \/ q.raised \/ ~ResizeAccepts(enlarged)
        THEN PixelateRaised
        ELSE [raised |-> FALSE, input |-> PilReadRGB(file), size |-> enlarged,
              quant |-> q.call]

\* --- the call, one step per loop iteration ---

PaletteIdle ==
    /\ lp_pc = "idle" /\ fileExists = FALSE /\ fileLines = << >>
    /\ lineIdx = 0 /\ palette = << >> /\ lp_ret = RetPending

ImageIdle ==
    /\ pi_pc = "idle" /\ imageSize = << >> /\ params = << >>
    /\ targetSize = << >> /\ quantLog = << >> /\ enlargedSize = << >>
    /\ savedSize = << >>

VideoIdle ==
    /\ pv_pc = "idle" /\ video = << >> /\ fps = 0 /\ readPos = 0
    /\ frame_count = 0 /\ tempDir = "none" /\ tempFiles = {}
    /\ handles = << >> /\ encoder = << >>

InitPalette ==
    /\ lp_pc = "call"
    /\ fileExists \in BOOLEAN
    /\ fileLines \in SampleFiles
    /\ (~fileExists => fileLines = << >>)
    /\ lineIdx = 1
    /\ palette = << >>
    /\ lp_ret = RetPending
    /\ ImageIdle
    /\ VideoIdle

\* palette = []; open(palette_file_path): FileNotFoundError is caught and None returned
OpenPaletteFile ==
    /\ lp_pc = "call"
    /\ IF fileExists
       THEN lp_pc' = "reading" /\ lp_ret' = lp_ret
       ELSE lp_pc' = "returned" /\ lp_ret' = RetNone
    /\ UNCHANGED << fileExists, fileLines, lineIdx, palette >>
    /\ UNCHANGED << imageVars, videoVars >>

\* one iteration of "for line in file"
ReadPaletteLine ==
    /\ lp_pc = "reading"
    /\ lineIdx <= Len(fileLines)
    /\ LET p == ParseLine(fileLines[lineIdx]) IN
       IF p.ok
       THEN /\ palette' = Append(palette, p.rgb)
            /\ lineIdx' = lineIdx + 1
            /\ UNCHANGED << lp_pc, lp_ret >>
       ELSE /\ lp_pc' = "raised"
            /\ lp_ret' = RetRaised
            /\ UNCHANGED << palette, lineIdx >>
    /\ UNCHANGED << fileExists, fileLines >>
    /\ UNCHANGED << imageVars, videoVars >>

\* the loop is exhausted: return palette
ReturnPalette ==
    /\ lp_pc = "reading"
    /\ lineIdx > Len(fileLines)
    /\ lp_pc' = "returned"
    /\ lp_ret' = RetList(palette)
    /\ UNCHANGED << fileExists, fileLines, lineIdx, palette >>
    /\ UNCHANGED << imageVars, videoVars >>

NextPalette == OpenPaletteFile \/ ReadPaletteLine \/ ReturnPalette

SpecPalette == InitPalette /\ [][NextPalette]_vars

---------------------------------------------------------------------------
(* one call of pixelate_image; pixel values are followed in SpecVideo only *)

NoPaletteFile == [given |-> FALSE, exists |-> FALSE, lines |-> << >>]

ValidLineA == << "#", "F", "F", "0", "0", "8", "0", "\n" >>

ValidLineB == << "0", "9", "c", "D", "e", "1", "\n" >>

BadLine == << "1", "2", "g", "\n" >>

ImagePaletteFiles ==
    { NoPaletteFile,
      [given |-> TRUE, exists |-> FALSE, lines |-> << >>],
      [given |-> TRUE, exists |-> TRUE, lines |-> << >>],
      [given |-> TRUE, exists |-> TRUE, lines |-> << ValidLineA, ValidLineB >>],
      [given |-> TRUE, exists |-> TRUE, lines |-> << ValidLineA, BadLine >>] }

PaletteSizes == { 4, 64 }

InitImage ==
    /\ pi_pc = "call"
    /\ imageSize \in (1..MaxDim) \X (1..MaxDim)
    /\ params \in [target_width : 1..MaxDim,
                   palette_size : PaletteSizes,
                   pixel_scale : 1..MaxScale,
                   palette_file : ImagePaletteFiles]
    /\ targetSize = << >>
    /\ quantLog = << >>
    /\ enlargedSize = << >>
    /\ savedSize = << >>
    /\ PaletteIdle
    /\ VideoIdle

\* Image.open ... image.resize((target_width, target_height))
OpenAndResize ==
    /\ pi_pc = "call"
    /\ targetSize' = << params.target_width,
                        TargetHeight(imageSize[1], imageSize[2], params.target_width) >>
    /\ pi_pc' = IF ResizeAccepts(targetSize') THEN "resized" ELSE "raised"
    /\ UNCHANGED << imageSize, params, quantLog, enlargedSize, savedSize >>
    /\ UNCHANGED << paletteVars, videoVars >>

\* the quantization step
Quantize ==
    /\ pi_pc = "resized"
    /\ LET q == QuantizeStep(params) IN
       IF q.raised
       THEN pi_pc' = "raised" /\ quantLog' = quantLog
       ELSE pi_pc' = "quantized" /\ quantLog' = Append(quantLog, q.call)
    /\ UNCHANGED << imageSize, params, targetSize, enlargedSize, savedSize >>
    /\ UNCHANGED << paletteVars, videoVars >>

\* the blocky enlargement
Enlarge ==
    /\ pi_pc = "quantized"
    /\ enlargedSize' = EnlargedSize(targetSize, params.pixel_scale)
    /\ pi_pc' = IF ResizeAccepts(enlargedSize') THEN "enlarged" ELSE "raised"
    /\ UNCHANGED << imageSize, params, targetSize, quantLog, savedSize >>
    /\ UNCHANGED << paletteVars, videoVars >>

\* image.save(output_path, format="PNG")
Save ==
    /\ pi_pc = "enlarged"
    /\ savedSize' = enlargedSize
    /\ pi_pc' = "saved"
    /\ UNCHANGED << imageSize, params, targetSize, quantLog, enlargedSize >>
    /\ UNCHANGED << paletteVars, videoVars >>

NextImage == OpenAndResize \/ Quantize \/ Enlarge \/ Save

SpecImage == InitImage /\ [][NextImage]_vars

---------------------------------------------------------------------------
(* find_framerate and pixelate_video *)

\* "if fps > detected_framerate: fps = detected_framerate" with the comparison
\* turned around
CapFpsReversed(requested, detected) ==
    IF requested.val < detected.val THEN detected ELSE requested

\* if fps > detected_framerate: fps = detected_framerate
CapFps(requested, detected) ==
    IF requested.val > detected.val THEN detected ELSE requested

\* the argument is an int, the probed value a float
IntNumber(n) == [val |-> n, float |-> FALSE]

FloatNumber(n) == [val |-> n, float |-> TRUE]

\* str(fps): "30" for an int, "24.0" for a float
StrOfNumber(x) == [digits |-> x.val, point |-> x.float]

\* the rate the encoder reads from its -framerate argument
ParseRate(text) == text.digits

Digits == << "0", "1", "2", "3", "4", "5", "6", "7", "8", "9" >>

RECURSIVE DecDigits(_)
DecDigits(n) ==
    IF n < 10 THEN << Digits[n + 1] >>
    ELSE Append(DecDigits(n \div 10), Digits[(n % 10) + 1])

\* f"{n:05d}": the decimal digits, padded with zeros on the left to five
Format05d(n) ==
    LET d == DecDigits(n)
    IN  [i \in 1..(IF Len(d) < 5 THEN 5 - Len(d) ELSE 0) |-> "0"] \o d

\* os.path.join(temp_dir, f"frame_{frame_count:05d}.png")
FrameName(n) == << "frame_" >> \o Format05d(n) \o << ".png" >>

\* os.path.join(temp_dir, f"frame_{frame_count:05d}_pixelated.png")
PixelatedName(n) == << "frame_" >> \o Format05d(n) \o << "_pixelated.png" >>

\* video.read(): the frame as an array in blue, green, red order
DecodeBGR(color) == << color.b, color.g, color.r >>

\* cv2.cvtColor(frame, cv2.COLOR_BGR2RGB): the first and third channel swap
CvtColorBGR2RGB(arr) == << arr[3], arr[2], arr[1] >>

\* cv2.imwrite takes the array it is given as blue, green, red
ImwriteColor(arr) == [b |-> arr[1], g |-> arr[2], r |-> arr[3]]

\* writing a file replaces a file of the same name
WriteFile(files, name, content) ==
    { f \in files : f.name # name } \cup { [name |-> name, content |-> content] }

\* leaving "with TemporaryDirectory()" if it cleaned up on a normal exit only
TempDirAfterExitNoCleanupOnError(outcome) ==
    IF outcome = "raised" THEN "present" ELSE "removed"

\* leaving "with TemporaryDirectory()": the directory goes on every exit
TempDirAfterExit(outcome) == "removed"

FilesAfterExit(files, dirState) == IF dirState = "removed" THEN {} ELSE files

\* subprocess.run(..., check=True): a non-zero status raises CalledProcessError
RunChecked(status) == IF status = 0 THEN "done" ELSE "raised"

EncoderIdle == [invoked |-> FALSE, framerate |-> StrOfNumber(IntNumber(0)),
                pattern |-> << >>, exited |-> FALSE, status |-> 0]

\* --- the inputs ---

FrameColors ==
    { [r |-> 255, g |-> 0, b |-> 0],
      [r |-> 0, g |-> 255, b |-> 0],
      [r |-> 10, g |-> 20, b |-> 30] }

VideoSizes == { << 1, 1 >>, << 2, 1 >> }

VideoPaletteFiles ==
    { NoPaletteFile,
      [given |-> TRUE, exists |-> TRUE, lines |-> << ValidLineA, ValidLineB >>] }

InitVideo ==
    /\ pv_pc = "call"
    /\ video \in [native_fps : 0..MaxFps,
                  size : VideoSizes,
                  frames : UNION { [1..n -> FrameColors] : n \in 0..MaxFrames }]
    /\ params \in [target_width : { 1 },
                   palette_size : { 4 },
                   pixel_scale : { 2 },
                   palette_file : VideoPaletteFiles,
                   fps : 1..MaxFps]
    /\ fps = IntNumber(params.fps)
    /\ readPos = 0
    /\ frame_count = 0
    /\ tempDir = "none"
    /\ tempFiles = {}
    /\ handles = [probe |-> "unopened", reader |-> "unopened"]
    /\ encoder = EncoderIdle
    /\ pi_pc = "idle" /\ imageSize = << >> /\ targetSize = << >>
    /\ quantLog = << >> /\ enlargedSize = << >> /\ savedSize = << >>
    /\ PaletteIdle

videoRest == << paletteVars, pi_pc, imageSize, params, targetSize, quantLog,
                enlargedSize, savedSize, video >>

\* detected_framerate = find_framerate(input_path); the cap; the print.
\* find_framerate opens a VideoCapture and returns without releasing it.
ProbeAndCap ==
    /\ pv_pc = "call"
    /\ handles' = [handles EXCEPT !.probe = "open"]
    /\ fps' = CapFps(fps, FloatNumber(video.native_fps))
    /\ pv_pc' = "probed"
    /\ UNCHANGED << readPos, frame_count, tempDir, tempFiles, encoder, videoRest >>

\* with TemporaryDirectory() as temp_dir: video = cv2.VideoCapture(input_path)
EnterTempDir ==
    /\ pv_pc = "probed"
    /\ tempDir' = "present"
    /\ handles' = [handles EXCEPT !.reader = "open"]
    /\ frame_count' = 0
    /\ pv_pc' = "loop"
    /\ UNCHANGED << fps, readPos, tempFiles, encoder, videoRest >>

\* one iteration of the loop with ret true: convert, write, pixelate, count.
\* written = FALSE is a write of the temporary image that fails (imwrite then
\* leaves no file and Image.open raises).  An error leaves the with block.
ProcessFrame ==
    /\ pv_pc = "loop"
    /\ readPos < Len(video.frames)
    /\ readPos' = readPos + 1
    /\ \E written \in BOOLEAN :
         LET frame == DecodeBGR(video.frames[readPos + 1])
             frame_rgb == CvtColorBGR2RGB(frame)
             tempImage == [size |-> video.size, rgb |-> ImwriteColor(frame_rgb)]
             withFrame == WriteFile(tempFiles, FrameName(frame_count), tempImage)
             out == pixelate_image(tempImage, params)
         IN  IF written /\ ~out.raised
             THEN /\ tempFiles' = WriteFile(withFrame, PixelatedName(frame_count),
                                            [input |-> out.input, size |-> out.size,
                                             quant |-> out.quant])
                  /\ frame_count' = frame_count + 1
                  /\ UNCHANGED << pv_pc, tempDir >>
             ELSE /\ pv_pc' = "raised"
                  /\ tempDir' = TempDirAfterExit("raised")
                  /\ tempFiles' = FilesAfterExit(IF written THEN withFrame
                                                            ELSE tempFiles, tempDir')
                  /\ UNCHANGED frame_count
    /\ UNCHANGED << fps, handles, encoder, videoRest >>

\* ret false: break; video.release(); the encoder is started
EndOfStreamAndEncode ==
    /\ pv_pc = "loop"
    /\ readPos >= Len(video.frames)
    /\ handles' = [handles EXCEPT !.reader = "released"]
    /\ encoder' = [invoked |-> TRUE, framerate |-> StrOfNumber(fps),
                   pattern |-> << "frame_", "%05d", "_pixelated.png" >>,
                   exited |-> FALSE, status |-> 0]
    /\ pv_pc' = "encoding"
    /\ UNCHANGED << fps, readPos, frame_count, tempDir, tempFiles, videoRest >>

\* the encoder exits; subprocess.run returns or raises; the with block is left
EncoderExit ==
    /\ pv_pc = "encoding"
    /\ \E status \in { 0, 1 } :
         /\ encoder' = [encoder EXCEPT !.exited = TRUE, !.status = status]
         /\ pv_pc' = RunChecked(status)
         /\ tempDir' = TempDirAfterExit(pv_pc')
         /\ tempFiles' = FilesAfterExit(tempFiles, tempDir')
    /\ UNCHANGED << fps, readPos, frame_count, handles, videoRest >>

\* a handle nothing refers to any more: the one find_framerate opened, once it
\* has returned; the reader, once pixelate_video has been left
Unreferenced(h) ==
    IF h = "probe" THEN pv_pc # "call" ELSE pv_pc \in { "done", "raised" }

\* the interpreter finalizes an unreferenced VideoCapture, which releases it;
\* when it does so is not in the program's hands
Finalize ==
    /\ \E h \in { "probe", "reader" } :
         /\ pv_pc # "idle"
         /\ handles[h] = "open"
         /\ Unreferenced(h)
         /\ handles' = [handles EXCEPT ![h] = "released"]
    /\ UNCHANGED << pv_pc, fps, readPos, frame_count, tempDir, tempFiles, encoder,
                    videoRest >>

NextVideo ==
    \/ ProbeAndCap
    \/ EnterTempDir
    \/ ProcessFrame
    \/ EndOfStreamAndEncode
    \/ EncoderExit
    \/ Finalize

SpecVideo == InitVideo /\ [][NextVideo]_vars

---------------------------------------------------------------------------
(* any one of the three operations *)

Init == InitPalette \/ InitImage \/ InitVideo

Next == NextPalette \/ NextImage \/ NextVideo

Spec == Init /\ [][Next]_vars

---------------------------------------------------------------------------
(* Properties of load_palette_from_file, checked under SpecPalette *)

\* a line without its terminator
LineText(rawLine) ==
    IF rawLine # << >> /\ rawLine[Len(rawLine)] = "\n"
    THEN SubSeq(rawLine, 1, Len(rawLine) - 1)
    ELSE rawLine

\* the digits of a color token: the text after one optional '#'
TokenDigits(text) == IF text # << >> /\ Head(text) = "#" THEN Tail(text) ELSE text

\* a valid color token: six hex digits, optionally prefixed with '#'
IsValidToken(rawLine) ==
    LET d == TokenDigits(LineText(rawLine)) IN Len(d) = 6 /\ AllHex(d)

\* the (red, green, blue) value a valid token stands for
TokenRGB(rawLine) ==
    LET d == TokenDigits(LineText(rawLine)) IN
    << 16 * HexDigitVal(d[1]) + HexDigitVal(d[2]),
       16 * HexDigitVal(d[3]) + HexDigitVal(d[4]),
       16 * HexDigitVal(d[5]) + HexDigitVal(d[6]) >>

AllLinesValid == \A i \in 1..Len(fileLines) : IsValidToken(fileLines[i])

\* C2: an existing file of valid color tokens loads to one RGB tuple per line,
\* the i-th tuple being the value of the i-th line, and never raises; a path
\* that does not exist returns None, not a list.
C2_ValidFileLoadsInOrder ==
    /\ (lp_pc = "raised" /\ fileExists) => ~AllLinesValid
    /\ (lp_pc = "returned" /\ fileExists /\ AllLinesValid) =>
          /\ lp_ret.kind = "list"
          /\ Len(lp_ret.colors) = Len(fileLines)
          /\ \A i \in 1..Len(fileLines) : lp_ret.colors[i] = TokenRGB(fileLines[i])
    /\ (lp_pc \in { "returned", "raised" } /\ ~fileExists) =>
          /\ lp_pc = "returned"
          /\ lp_ret = RetNone
          /\ lp_ret.kind # "list"

\* C2 witness: a file of two valid tokens of different colors has been loaded
C2_Witness ==
    /\ lp_pc = "returned" /\ fileExists /\ AllLinesValid
    /\ Len(fileLines) = 2
    /\ TokenRGB(fileLines[1]) # TokenRGB(fileLines[2])
    /\ Head(fileLines[1]) = "#" /\ Head(fileLines[2]) # "#"
    /\ lp_ret.kind = "list"

\* a malformed line: after stripping whitespace and the leading '#', it is not
\* exactly six hex digits
IsMalformed(rawLine) ==
    LET d == TokenDigits(Strip(rawLine)) IN ~(Len(d) = 6 /\ AllHex(d))

\* C3: a malformed line in an existing file makes the call fail: no malformed
\* line is turned into a color, and no palette is returned for such a file.
C3_MalformedLineIsFatal ==
    fileExists =>
       /\ \A i \in 1..Len(palette) : ~IsMalformed(fileLines[i])
       /\ lp_pc = "returned" =>
             \A i \in 1..Len(fileLines) : ~IsMalformed(fileLines[i])

\* what does hold of malformed lines: a line of fewer than five characters
\* after the strip and the removal of the leading '#'s is fatal
IsShortLine(rawLine) ==
    LET stripped == Strip(rawLine)
        d == IF stripped # << >> /\ Head(stripped) = "#"
             THEN LStripHash(stripped) ELSE stripped
    IN  Len(d) < 5

ShortLineIsFatal ==
    (fileExists /\ lp_pc = "returned") =>
        \A i \in 1..Len(fileLines) : ~IsShortLine(fileLines[i])

---------------------------------------------------------------------------
(* Properties of pixelate_image, checked under SpecImage *)

\* floor(W * h / w) in exact integer arithmetic
ExactTargetHeight(w, h, W) == (W * h) \div w

\* C1: the saved image is W * s wide and floor(W * h / w) * s high.
C1_SavedDimensions ==
    pi_pc = "saved" =>
        savedSize = << params.target_width * params.pixel_scale,
                       ExactTargetHeight(imageSize[1], imageSize[2],
                                         params.target_width) * params.pixel_scale >>

\* what does hold: the saved width is exact, the saved height is the float
\* product truncated, at most one pixel row short of the exact value
SavedDimensionsWithinOneRow ==
    pi_pc = "saved" =>
        LET exact == ExactTargetHeight(imageSize[1], imageSize[2], params.target_width)
        IN  /\ savedSize[1] = params.target_width * params.pixel_scale
            /\ savedSize[2] \in { exact * params.pixel_scale,
                                  (exact - 1) * params.pixel_scale }

\* C9: the size computed for the downscale and the size computed for the
\* enlargement both have a width >= 1 and a height >= 1.
C9_ResizeSizesPositive ==
    /\ targetSize # << >> => (targetSize[1] >= 1 /\ targetSize[2] >= 1)
    /\ enlargedSize # << >> => (enlargedSize[1] >= 1 /\ enlargedSize[2] >= 1)

QuantizationDone == pi_pc \in { "quantized", "enlarged", "saved" }

\* C4 as stated: the custom palette is used exactly when palette_file is given
\* and the file loads successfully; otherwise median cut to palette_size colors
\* is used; exactly one quantization is applied.
C4_PaletteUsedIffLoaded ==
    QuantizationDone =>
        /\ Len(quantLog) = 1
        /\ quantLog[1].method = "palette" <=>
              (params.palette_file.given
                 /\ load_palette_from_file(params.palette_file).kind = "list")
        /\ quantLog[1].method # "palette" =>
              quantLog[1] = MedianCutCall(params.palette_size)

\* C4 amended: the custom palette is used exactly when palette_file is given
\* and the file loads to at least one color; when no palette_file is given,
\* the file does not exist or it loads to no color, median cut to palette_size
\* colors is used and the quantization step does not raise; a run that
\* completes the quantization step has applied exactly one quantization.
C4_PaletteUsedIffNonEmpty ==
    LET file == params.palette_file
        loaded == load_palette_from_file(file)
        fallback == ~file.given \/ ~file.exists \/ loaded = RetList(<< >>)
    IN  /\ Len(quantLog) <= 1
        /\ (pi_pc = "raised" /\ ResizeAccepts(targetSize)) => ~fallback
        /\ QuantizationDone =>
              /\ Len(quantLog) = 1
              /\ quantLog[1].method = "palette" <=>
                    (file.given /\ loaded.kind = "list" /\ Len(loaded.colors) >= 1)
              /\ quantLog[1].method = "palette" =>
                    quantLog[1].palette = loaded.colors
              /\ fallback => quantLog[1] = MedianCutCall(params.palette_size)

\* C4 witness: a given, existing, empty palette file went to median cut
C4_Witness ==
    /\ pi_pc = "quantized"
    /\ params.palette_file.given /\ params.palette_file.exists
    /\ params.palette_file.lines = << >>
    /\ quantLog = << MedianCutCall(params.palette_size) >>

---------------------------------------------------------------------------
(* Properties of pixelate_video, checked under SpecVideo *)

\* the (red, green, blue) value of a decoded frame
FrameRGB(i) == << video.frames[i].r, video.frames[i].g, video.frames[i].b >>

\* the pixelated frame images in the temporary directory
PixelatedFiles == { f \in tempFiles : \E i \in 0..MaxFrames : f.name = PixelatedName(i) }

\* the name a pixelated frame of index i is to have: "frame_", the index in
\* five digits, "_pixelated.png"
IndexName(i) ==
    << "frame_", Digits[((i \div 10000) % 10) + 1], Digits[((i \div 1000) % 10) + 1],
       Digits[((i \div 100) % 10) + 1], Digits[((i \div 10) % 10) + 1],
       Digits[(i % 10) + 1], "_pixelated.png" >>

\* the pixelation of the i-th decoded frame (i counted from 1): what
\* pixelate_image saves for an image of the frame's size and colors
PixelationOfFrame(i) ==
    LET out == pixelate_image([size |-> video.size,
                               rgb |-> [r |-> video.frames[i].r,
                                        g |-> video.frames[i].g,
                                        b |-> video.frames[i].b]], params)
    IN  [input |-> out.input, size |-> out.size, quant |-> out.quant]

\* C5: when the encoder is invoked after n frames were decoded, the temporary
\* directory holds exactly n pixelated frame images, named with the indices
\* 0 .. n-1, the image of index i being the pixelation of the i-th decoded
\* frame; the encoder is not invoked before the last frame has been pixelated.
C5_OnePixelatedImagePerFrame ==
    encoder.invoked =>
        /\ readPos = Len(video.frames)
        /\ (pv_pc = "encoding" =>
              PixelatedFiles =
                 { [name |-> IndexName(i), content |-> PixelationOfFrame(i + 1)] :
                      i \in 0..(readPos - 1) })

\* what does hold of the frame sequence: one pixelated image per decoded frame,
\* named by the indices 0 .. n-1, the image of index i made from the temporary
\* image of the frame decoded i-th, whose red and blue are exchanged
PixelatedImagesInOrder ==
    encoder.invoked =>
        /\ readPos = Len(video.frames)
        /\ frame_count = readPos
        /\ (pv_pc = "encoding" =>
              /\ Cardinality(PixelatedFiles) = readPos
              /\ { f.name : f \in PixelatedFiles } =
                    { IndexName(i) : i \in 0..(readPos - 1) }
              /\ \A f \in PixelatedFiles : \A i \in 0..(readPos - 1) :
                    f.name = IndexName(i) =>
                       f.content.input = << video.frames[i + 1].b,
                                            video.frames[i + 1].g,
                                            video.frames[i + 1].r >>)

Min(a, b) == IF a <= b THEN a ELSE b

\* C6: the frame rate passed to the encoder is min(requested fps, native fps)
\* and never exceeds the native frame rate.
C6_EncoderRateIsMin ==
    /\ pv_pc \notin { "idle", "call" } =>
          fps.val = Min(params.fps, video.native_fps)
    /\ encoder.invoked =>
          /\ ParseRate(encoder.framerate) = Min(params.fps, video.native_fps)
          /\ ParseRate(encoder.framerate) <= video.native_fps

\* C6 witness: the encoder runs with a rate capped below the requested one
C6_Witness ==
    /\ pv_pc = "encoding"
    /\ params.fps > video.native_fps
    /\ video.native_fps > 0
    /\ ParseRate(encoder.framerate) = video.native_fps

\* C7: once pixelate_video has been left after the temporary directory was
\* acquired, normally or by an error, the directory and its frame files are
\* gone; a non-zero encoder status leaves by an error, never as success.
C7_TempDirRemovedOnEveryExit ==
    /\ pv_pc \in { "done", "raised" } => (tempDir = "removed" /\ tempFiles = {})
    /\ tempDir = "present" => pv_pc \in { "loop", "encoding" }
    /\ (encoder.exited /\ encoder.status # 0) => pv_pc = "raised"
    /\ pv_pc = "done" => (encoder.exited /\ encoder.status = 0)

\* C7 witness: frames were processed, the encoder failed, the call raised and
\* the directory is gone
C7_Witness ==
    /\ pv_pc = "raised"
    /\ encoder.exited /\ encoder.status # 0
    /\ frame_count >= 1
    /\ tempDir = "removed" /\ tempFiles = {}

\* C8: when the encoder is invoked, every decoder handle opened during the
\* call, the one of find_framerate and the one that read the frames, has
\* been released.
C8_HandlesReleasedBeforeEncoder ==
    pv_pc = "encoding" =>
        \A h \in { "probe", "reader" } : handles[h] \in { "unopened", "released" }

\* what does hold: the handle that read the frames is released before the encoder
ReaderReleasedBeforeEncoder ==
    pv_pc = "encoding" => handles.reader = "released"

\* C10: the (red, green, blue) that pixelate_image reads back from the
\* temporary frame file is the (red, green, blue) of the decoded frame.
C10_ColorsSurviveTempFile ==
    \A f \in PixelatedFiles : \A i \in 0..(readPos - 1) :
        f.name = PixelatedName(i) => f.content.input = FrameRGB(i + 1)

=============================================================================
